---------------------------- MODULE Spec2Model ----------------------------
(*************************************************************************)
(* A model of skultrafast.dataset.DataSet: construction, range selection *)
(* (cut_freqs, cut_times), in-place masking (mask_freqs, mask_times),    *)
(* subtract_background, bin_freqs, bin_times, concat_datasets and        *)
(* estimate_dispersion; of the arrays behind the instances (which        *)
(* attribute is bound to which array); and of skultrafast.quickcontrol:  *)
(* parse_str and the loading and transform of QC2DSpec.                  *)
(*                                                                       *)
(* Specifications: Spec (construction and reductions), SpecInPlace (the  *)
(* in-place methods), SpecReduce (bin_times, concat_datasets,            *)
(* estimate_dispersion), SpecStorage (reductions and in-place methods    *)
(* over shared arrays), SpecParse (parse_str), SpecQC (QC2DSpec).        *)
(*                                                                       *)
(* Arrays are sequences, a 2D array is a sequence of rows.  Floating     *)
(* point numbers are integers: spectral coordinates are drawn from a set *)
(* on which 1e7 / x is exact, quotients are floored, and numpy's nan is  *)
(* the distinguished value NaN, which every arithmetic helper propagates *)
(* and every comparison treats as unordered.                             *)
(*************************************************************************)
EXTENDS Integers, Sequences, FiniteSets, TLC

VARIABLES
    ds,     \* the DataSet instance the caller holds
    res,    \* outcome of the last call: returned value or raised exception
    last,   \* the last call: its name and arguments
    muts,   \* number of in-place calls made on ds so far
    qc,     \* the QC2DSpec object under construction or in use
    store   \* the arrays behind ds and res, where it is followed which
            \* instance holds which array

vars == <<ds, res, last, muts, qc, store>>

-----------------------------------------------------------------------------
(* Bounds of the exploration *)

MaxN == 3        \* longest spectral axis given to the constructor
MaxM == 5        \* longest time axis given to the constructor
MaxMShuffled == 1  \* longest time axis given along with an unsorted spectral axis
MaxRanges == 2   \* longest list of ranges given to a selection
MaxMut == 2      \* in-place calls explored on one instance
MaxBins == 3     \* largest number of bins asked of bin_freqs
MaxStr == 3      \* longest info-file value built from single characters
MaxT == 3        \* most waiting times of a 2D measurement
Pixels == 2      \* probe channels of a scan file (128 on the instrument)

-----------------------------------------------------------------------------
(* Values *)

None == <<>>                 \* Python's None where an array or instance may stand
NoUnit == "None"             \* Python's None where a unit string may stand
NaN == -999999999            \* numpy.nan
E7 == 10000000               \* the 1e7 of nm <-> cm^-1
EdgeScale == 1000            \* bin edges are compared in thousandths
EdgeEps == 2                 \* 0.002, in thousandths

\* Spectral coordinates: closed under x |-> 1e7 / x, which is exact on them.
Coords == {2000, 2500, 4000, 5000}

IsNaN(x) == x = NaN

\* a < b on floats: False whenever a nan is involved.
FLess(a, b) == ~IsNaN(a) /\ ~IsNaN(b) /\ a < b

FSub(a, b) == IF IsNaN(a) \/ IsNaN(b) THEN NaN ELSE a - b

FNeg(a) == IF IsNaN(a) THEN NaN ELSE 0 - a

\* floor(a / b) for b > 0 and any integer a
FloorDiv(a, b) == IF a >= 0 THEN a \div b ELSE 0 - ((0 - a + b - 1) \div b)

\* 1e7 / x elementwise (lines 78, 81)
Recip(a) == [k \in 1..Len(a) |-> IF IsNaN(a[k]) THEN NaN ELSE E7 \div a[k]]

RECURSIVE SumSeq(_)
SumSeq(s) == IF s = <<>> THEN 0 ELSE s[1] + SumSeq(Tail(s))

HasNaN(s) == \E k \in 1..Len(s) : IsNaN(s[k])

\* numpy.mean of a 1D array: nan for an empty slice or when a nan is in it.
FMean(s) ==
    IF s = <<>> \/ HasNaN(s) THEN NaN ELSE FloorDiv(SumSeq(s), Len(s))

-----------------------------------------------------------------------------
(* Arrays.  A 1D array is a sequence; a 2D array is a record holding its     *)
(* shape (nr, nc) and its rows v, so that an array without rows or without   *)
(* columns keeps its shape.                                                  *)

Mat(nr, nc, F(_, _)) ==
    [nr |-> nr, nc |-> nc, v |-> [i \in 1..nr |-> [j \in 1..nc |-> F(i, j)]]]

\* a.shape
Shape(a) == <<a.nr, a.nc>>

\* a[idx] for an integer index array idx
Take(a, idx) == [k \in 1..Len(idx) |-> a[idx[k]]]

\* a[:, idx] for an integer index array idx
TakeCols(a, idx) ==
    [nr |-> a.nr, nc |-> Len(idx), v |-> [i \in 1..a.nr |-> Take(a.v[i], idx)]]

\* a[idx, :] for an integer index array idx
TakeRows(a, idx) == [nr |-> Len(idx), nc |-> a.nc, v |-> Take(a.v, idx)]

\* a[:, j] and a[i, :]
Col(a, j) == [i \in 1..a.nr |-> a.v[i][j]]
Row(a, i) == a.v[i]

\* the positions at which a boolean index array is True, ascending
RECURSIVE Where(_)
Where(b) ==
    IF b = <<>> THEN <<>>
    ELSE LET n == Len(b)
             front == Where(SubSeq(b, 1, n - 1))
         IN  IF b[n] THEN Append(front, n) ELSE front

\* numpy.argsort: the permutation that sorts a ascending, nan last.  Ties keep
\* their order; the axes met here have distinct values except for nan entries,
\* whose columns are all nan.
Before(a, i, j) ==
    \/ FLess(a[i], a[j])
    \/ ~IsNaN(a[i]) /\ IsNaN(a[j])
    \/ (a[i] = a[j]) /\ i < j
ArgSort(a) ==
    [k \in 1..Len(a) |->
        CHOOSE j \in 1..Len(a) :
            Cardinality({i \in 1..Len(a) : Before(a, i, j)}) = k - 1]

-----------------------------------------------------------------------------
(* DataSet.__init__ *)

\* Mutant of ShapeOK: only the number of columns is compared.
ShapeOK_ColsOnly(wl, t, data) == Len(wl) = data.nc

\* assert ((t.shape[0], wl.shape[0]) == data.shape)
ShapeOK(wl, t, data) == <<Len(t), Len(wl)>> = Shape(data)

\* self.wavelengths before sorting
AxisWavelengths(wl, freq_unit) == IF freq_unit = "nm" THEN wl ELSE Recip(wl)

\* self.wavenumbers before sorting
AxisWavenumbers(wl, freq_unit) == IF freq_unit = "nm" THEN Recip(wl) ELSE wl

\* Mutant of SortData: the signal keeps the order it was given in.
SortData_Unsorted(data, idx) == data

\* self.data = self.data[:, idx]; a masked array carries its mask along
SortData(data, idx) == TakeCols(data, idx)
SortMask(mask, idx) == IF mask = None THEN None ELSE TakeCols(mask, idx)

\* self.err = err: stored as given, idx is never applied to it
StoreErr(err, idx) == err

\* self.disp_freq_unit
DispUnit(freq_unit, disp_freq_unit) ==
    IF disp_freq_unit = NoUnit THEN freq_unit ELSE disp_freq_unit

\* The instance __init__ builds once the assertion has passed.  data and err
\* are either plain arrays (mask = None) or masked arrays.
DataSetInit(wl, t, data, mask, err, err_mask, name, freq_unit, disp_freq_unit) ==
    LET wavelengths == AxisWavelengths(wl, freq_unit)
        wavenumbers == AxisWavenumbers(wl, freq_unit)
        idx == ArgSort(wavelengths)
    IN  [wavelengths |-> Take(wavelengths, idx),
         wavenumbers |-> Take(wavenumbers, idx),
         wl |-> IF freq_unit = "nm" THEN wavelengths ELSE wavenumbers,
         t |-> t,
         data |-> SortData(data, idx),
         mask |-> SortMask(mask, idx),
         err |-> StoreErr(err, idx),
         err_mask |-> StoreErr(err_mask, idx),
         name |-> name,
         disp_freq_unit |-> DispUnit(freq_unit, disp_freq_unit),
         plot_freq_unit |-> DispUnit(freq_unit, disp_freq_unit)]

\* What a call leaves behind: the value it returned or the exception it raised.
Returned(v) == [status |-> "ok", value |-> v, exc |-> "none"]
Raised(e) == [status |-> "error", value |-> None, exc |-> e]

\* DataSet(...): the outcome of the constructor call
NewDataSet(wl, t, data, mask, err, err_mask, name, freq_unit, disp_freq_unit) ==
    IF ShapeOK(wl, t, data)
    THEN Returned(DataSetInit(wl, t, data, mask, err, err_mask, name,
                              freq_unit, disp_freq_unit))
    ELSE Raised("AssertionError")

-----------------------------------------------------------------------------
(* Range selection: the index array of cut_freqs, mask_freqs, cut_times and  *)
(* mask_times                                                                *)

\* np.logical_and(arr > lower, arr < upper) at one coordinate
InRange(x, r) == FLess(r[1], x) /\ FLess(x, r[2])

\* Mutant of XorRanges: the ranges are unioned, "idx |= ...".
XorRanges_Or(arr, ranges) ==
    [k \in 1..Len(arr) |-> \E i \in 1..Len(ranges) : InRange(arr[k], ranges[i])]

\* idx after the loop "idx ^= np.logical_and(arr > lower, arr < upper)"
RECURSIVE XorRanges(_, _)
XorRanges(arr, ranges) ==
    IF ranges = <<>> THEN [k \in 1..Len(arr) |-> FALSE]
    ELSE LET n == Len(ranges)
             idx == XorRanges(arr, SubSeq(ranges, 1, n - 1))
         IN  [k \in 1..Len(arr) |-> idx[k] # InRange(arr[k], ranges[n])]

\* Mutant of ApplyInvert: the flag is ignored.
ApplyInvert_Always(idx, invert_sel) == [k \in 1..Len(idx) |-> ~idx[k]]

\* "if not invert_sel: idx = ~idx"
ApplyInvert(idx, invert_sel) ==
    IF ~invert_sel THEN [k \in 1..Len(idx) |-> ~idx[k]] ELSE idx

Selection(arr, ranges, invert_sel) ==
    ApplyInvert(XorRanges(arr, ranges), invert_sel)

\* arr = self.wavelengths if freq_unit is 'nm' else self.wavenumbers.  The
\* argument is a literal at every call site, so `is` compares like ==.
FreqAxis(d, freq_unit) ==
    IF freq_unit = "nm" THEN d.wavelengths ELSE d.wavenumbers

\* e[:, idx] / e[idx, :] of an array that may be absent: err when it is not
\* None, the mask of a masked array
PickCols(e, w) == IF e # None THEN TakeCols(e, w) ELSE None
PickRows(e, w) == IF e # None THEN TakeRows(e, w) ELSE None

\* cut_freqs: DataSet(arr[idx], self.t, self.data[:, idx], err, freq_unit);
\* the fifth positional parameter of __init__ is name.
CutFreqsCall(d, freq_ranges, invert_sel, freq_unit) ==
    LET arr == FreqAxis(d, freq_unit)
        w == Where(Selection(arr, freq_ranges, invert_sel))
    IN  NewDataSet(Take(arr, w), d.t, TakeCols(d.data, w), PickCols(d.mask, w),
                   PickCols(d.err, w), PickCols(d.err_mask, w), freq_unit,
                   "nm", NoUnit)

\* cut_times: DataSet(self.wavelengths, self.t[idx], self.data[idx, :], err)
CutTimesCall(d, time_ranges, invert_sel) ==
    LET w == Where(Selection(d.t, time_ranges, invert_sel))
    IN  NewDataSet(d.wavelengths, Take(d.t, w), TakeRows(d.data, w),
                   PickRows(d.mask, w), PickRows(d.err, w),
                   PickRows(d.err_mask, w), "unset", "nm", NoUnit)

-----------------------------------------------------------------------------
(* bin_freqs *)

\* arr = self.wavelengths if freq_unit is 'nm' else -self.wavenumbers
BinAxis(d, freq_unit) ==
    IF freq_unit = "nm" THEN d.wavelengths
    ELSE [k \in 1..Len(d.wavenumbers) |-> FNeg(d.wavenumbers[k])]

SeqMin(a) == CHOOSE x \in {a[k] : k \in 1..Len(a)} : \A k \in 1..Len(a) : x <= a[k]
SeqMax(a) == CHOOSE x \in {a[k] : k \in 1..Len(a)} : \A k \in 1..Len(a) : x >= a[k]

\* Mutant of EdgeHi: the upper edge is not offset.
EdgeHi_NoOffset(arr) == SeqMax(arr) * EdgeScale

\* The outer edges arr.min() - 0.002 and arr.max() + 0.002, in thousandths
EdgeLo(arr) == SeqMin(arr) * EdgeScale - EdgeEps
EdgeHi(arr) == SeqMax(arr) * EdgeScale + EdgeEps

\* np.searchsorted(arr, edges)[k] for k = 0..n with edges = np.linspace(lo, hi,
\* n + 1): the number of elements of the sorted arr below lo + k * (hi - lo) / n,
\* compared after multiplying both sides by n.
SearchEdge(arr, lo, hi, n, k) ==
    Cardinality({j \in 1..Len(arr) :
                    arr[j] * EdgeScale * n < lo * n + k * (hi - lo)})

\* idx, as a sequence: BinIdx(...)[k + 1] is idx[k]
BinIdx(arr, n) ==
    [k1 \in 1..(n + 1) |->
        SearchEdge(arr, EdgeLo(arr), EdgeHi(arr), n, k1 - 1)]

\* s[a:b] of a sequence, a and b counted from 0
Slice(s, a, b) == SubSeq(s, a + 1, b)

RECURSIVE ProdSeq(_)
ProdSeq(s) == IF s = <<>> THEN 1 ELSE s[1] * ProdSeq(Tail(s))

\* np.average(x, weights=1/e) of one row slice: sum(x/e) / sum(1/e), both
\* multiplied by the product of the e
WeightedMean(x, e) ==
    IF HasNaN(x) THEN NaN
    ELSE LET P == ProdSeq(e)
             num == SumSeq([j \in 1..Len(x) |-> x[j] * (P \div e[j])])
             den == SumSeq([j \in 1..Len(x) |-> P \div e[j]])
         IN  FloorDiv(num, den)

\* binned[:, i] for the bin holding columns a..b-1 (from 0).  Without err this
\* is the plain mean, nan for an empty bin; with err the weights of an empty
\* bin sum to zero, which np.average refuses.
BinColumn(d, a, b) ==
    [r \in 1..d.data.nr |->
        IF d.err = None THEN FMean(Slice(Row(d.data, r), a, b))
        ELSE WeightedMean(Slice(Row(d.data, r), a, b),
                          Slice(Row(d.err, r), a, b))]

\* Does the loop over the bins raise?
BinRaises(d, idx, n) == d.err # None /\ \E i \in 1..n : idx[i] = idx[i + 1]

\* bin_freqs(n, freq_unit) on an instance whose data and err are plain arrays
BinFreqsCall(d, n, freq_unit) ==
    LET arr == BinAxis(d, freq_unit)
        idx == BinIdx(arr, n)
        wl0 == [i \in 1..n |-> FMean(Slice(arr, idx[i], idx[i + 1]))]
        binned_wl == IF freq_unit = "cm"
                     THEN [i \in 1..n |-> FNeg(wl0[i])] ELSE wl0
        cols == [i \in 1..n |-> BinColumn(d, idx[i], idx[i + 1])]
        binned == [nr |-> d.data.nr, nc |-> n,
                   v |-> [r \in 1..d.data.nr |-> [i \in 1..n |-> cols[i][r]]]]
    IN  IF arr = <<>> THEN Raised("ValueError")
        ELSE IF BinRaises(d, idx, n) THEN Raised("ZeroDivisionError")
        ELSE NewDataSet(binned_wl, d.t, binned, None, None, None, "unset",
                        freq_unit, d.disp_freq_unit)

-----------------------------------------------------------------------------
(* bin_times *)

SigmaTwice == 5              \* sigma=2.5, doubled

\* The values of x in ascending order
Sorted(x) == Take(x, ArgSort(x))

\* Twice the median of a non-empty 1D array
MedianTwice(x) ==
    LET k == Len(x)
        s == Sorted(x)
    IN  IF k % 2 = 1 THEN 2 * s[(k + 1) \div 2]
        ELSE s[k \div 2] + s[k \div 2 + 1]

SumSq(x) == SumSeq([r \in 1..Len(x) |-> x[r] * x[r]])

\* sigma_clip(x, sigma=2.5, iters=1) along one column: the mask it returns.
\* A sample is masked when it lies more than 2.5 standard deviations (of the
\* whole column, ddof = 0) from the median: |x - med| > 2.5 * std, squared and
\* multiplied by 4 * k^2, with k^2 * var = k * sum(x^2) - sum(x)^2.
Clipped(x) ==
    LET k == Len(x)
        dev(r) == 2 * x[r] - MedianTwice(x)
    IN  [r \in 1..k |->
            k * k * dev(r) * dev(r) >
                SigmaTwice * SigmaTwice * (k * SumSq(x) - SumSeq(x) * SumSeq(x))]

\* sigma_clip(...).mean(0) at one column: the mean of the samples left valid
ClipMean(x) == FMean(Take(x, Where([r \in 1..Len(x) |-> ~Clipped(x)[r]])))

\* list(range(start, stop, step)) for step # 0 and start <= stop
RangeSeq(start, stop, step) ==
    IF step < 0 THEN <<>>
    ELSE LET S == {i \in start..(stop - 1) : (i - start) % step = 0}
         IN  [g \in 1..Cardinality(S) |-> start + (g - 1) * step]

\* Mutant of GroupEnd: the last, partial group is cut off at the axis end
\* minus one.
GroupEnd_Short(i, n, m) == IF i + n <= m THEN i + n ELSE m - 1

\* end_idx = min(i + n, m)
GroupEnd(i, n, m) == IF i + n < m THEN i + n ELSE m

\* bin_times(n, start_index) on an instance whose data is a plain array, for
\* 0 <= start_index <= len(t).  range() refuses a zero step; without a group
\* np.array([]) has shape (0,), which the constructor's assertion refuses.
BinTimesCall(d, n, start_index) ==
    LET m == Len(d.t)
        starts == RangeSeq(start_index, m, n)
        G == Len(starts)
        rows(g) == <<starts[g], GroupEnd(starts[g], n, m)>>
        new_t == [g \in 1..G |-> FMean(Slice(d.t, rows(g)[1], rows(g)[2]))]
        new_data == Mat(G, d.data.nc,
                        LAMBDA g, j :
                           ClipMean(Slice(Col(d.data, j), rows(g)[1], rows(g)[2])))
    IN  IF n = 0 THEN Raised("ValueError")
        ELSE IF G = 0 THEN Raised("AssertionError")
        ELSE NewDataSet(d.wavelengths, new_t, new_data, None, None, None,
                        "unset", "nm", d.disp_freq_unit)

-----------------------------------------------------------------------------
(* concat_datasets *)

\* np.hstack((a, b)) of two 2D arrays: the rows of b appended to those of a;
\* the row counts have to agree.
HStack(a, b) ==
    [nr |-> a.nr, nc |-> a.nc + b.nc, v |-> [i \in 1..a.nr |-> a.v[i] \o b.v[i]]]

\* concat_datasets(other_ds) on instances whose data are plain arrays
ConcatDatasetsCall(d, other_ds) ==
    LET all_wls == d.wavelengths \o other_ds.wavelengths
    IN  IF d.data.nr # other_ds.data.nr THEN Raised("ValueError")
        ELSE NewDataSet(all_wls, d.t, HStack(d.data, other_ds.data), None,
                        None, None, "unset", "nm", d.disp_freq_unit)

-----------------------------------------------------------------------------
(* estimate_dispersion.  The module zero_finding is not among the sources:   *)
(* its three functions follow the description of the dispersion engine.      *)

Deg == 2                     \* deg=2, the degree of the fitted polynomial

\* zero_finding.use_first_abs(data, val): for every channel the index, from 0,
\* of the first sample with |signal| >= val; 0 when there is none.
UseFirstAbs(data, val) ==
    [j \in 1..data.nc |->
        LET hit == {i \in 1..data.nr :
                       data.v[i][j] >= val \/ 0 - data.v[i][j] >= val}
        IN  IF hit = {} THEN 0
            ELSE (CHOOSE i \in hit : \A k \in hit : i <= k) - 1]

\* zero_finding.robust_fit_tz followed by func(self.wavenumbers): the fitted
\* polynomial at the channels.  A polynomial of degree deg fitted to at most
\* deg + 1 channels passes through every point, robustly weighted or not.
FitAtChannels(wavenumbers, tn) == tn

\* np.interp(x, xp, fp, left=0) for ascending xp
Interp(x, xp, fp) ==
    LET n == Len(xp)
    IN  IF x < xp[1] THEN 0
        ELSE IF x >= xp[n] THEN fp[n]
        ELSE LET k == CHOOSE k \in 1..(n - 1) : xp[k] <= x /\ x < xp[k + 1]
             IN  fp[k] + FloorDiv((x - xp[k]) * (fp[k + 1] - fp[k]),
                                  xp[k + 1] - xp[k])

\* zero_finding.interpol(ds, tz).data: every channel resampled, linearly, at
\* the times of ds from its trace moved earlier by the channel's time-zero
Interpol(d, tz) ==
    Mat(d.data.nr, d.data.nc,
        LAMBDA i, j :
           Interp(d.t[i], [k \in 1..Len(d.t) |-> d.t[k] - tz[j]],
                  Col(d.data, j)))

\* estimate_dispersion(heuristic, (val,)) on an instance of at most deg + 1
\* channels; heuristic is a name or "<function>", a callable.
EstimateDispersionCall(d, heuristic, val) ==
    IF heuristic = "abs"
    THEN LET idx == UseFirstAbs(d.data, val)
             tn == [j \in 1..Len(idx) |-> d.t[idx[j] + 1]]
             new_data == Interpol(d, FitAtChannels(d.wavenumbers, tn))
             correct_ds == NewDataSet(d.wavelengths, d.t, new_data, None,
                                      None, None, "unset", "nm", NoUnit)
         IN  IF correct_ds.status = "ok"
             THEN Returned([correct_ds |-> correct_ds.value, tn |-> tn,
                            polynomial |-> FitAtChannels(d.wavenumbers, tn)])
             ELSE correct_ds
    ELSE Raised("NotImplementedError")

-----------------------------------------------------------------------------
(* mask_freqs, mask_times, subtract_background: the in-place methods.  Each  *)
(* operator gives the instance after the call; the *Raises operators name    *)
(* the exception that ends the call before anything is written.              *)

\* Is entry (i, j) of the signal marked invalid?
MaskedAt(d, i, j) == d.mask # None /\ d.mask.v[i][j]

\* m[:, idx] = True on an (nr, nc) mask m; m = None stands for no mask yet
SetCols(m, idx, nr, nc) ==
    Mat(nr, nc, LAMBDA i, j : (m # None /\ m.v[i][j]) \/ idx[j])

\* mask_freqs: "self.err.mask[:, idx] = True" needs err to be a masked array
MaskFreqsRaises(d) ==
    IF d.err # None /\ d.err_mask = None THEN "AttributeError" ELSE "none"

\* mask_freqs: self.data = np.ma.MaskedArray(self.data);
\* self.data[:, idx] = np.ma.masked
MaskFreqsCall(d, freq_ranges, invert_sel, freq_unit) ==
    LET idx == Selection(FreqAxis(d, freq_unit), freq_ranges, invert_sel)
    IN  [d EXCEPT
            !.err_mask = IF d.err # None
                         THEN SetCols(d.err_mask, idx, d.err.nr, d.err.nc)
                         ELSE d.err_mask,
            !.mask = SetCols(d.mask, idx, d.data.nr, d.data.nc)]

\* mask_times: "self.err[idx, :].mask = True" needs err to be a masked array
\* (and then writes to a copy); "self.data.mask[:, idx] = True" needs data to
\* be a masked array and uses the len(t) booleans of idx on the column axis.
MaskTimesRaises(d) ==
    IF d.err # None /\ d.err_mask = None THEN "AttributeError"
    ELSE IF d.mask = None THEN "AttributeError"
    ELSE IF Len(d.t) # d.data.nc THEN "IndexError"
    ELSE "none"

MaskTimesCall(d, time_ranges, invert_sel) ==
    LET idx == Selection(d.t, time_ranges, invert_sel)
    IN  [d EXCEPT !.mask = SetCols(d.mask, idx, d.data.nr, d.data.nc)]

\* The number of rows of data[:n, :]
HeadRows(n, m) ==
    IF n >= 0 THEN (IF n < m THEN n ELSE m)
    ELSE (IF m + n > 0 THEN m + n ELSE 0)

\* The valid entries of column j among the first k rows
ValidHead(d, j, k) ==
    Take(Col(d.data, j), Where([i \in 1..k |-> ~MaskedAt(d, i, j)]))

\* np.mean(self.data[:n, :], 0, keepdims=True) at column j: the mean of the
\* valid entries; of a masked array it is masked when there is none.
HeadMean(d, j, k) == FMean(ValidHead(d, j, k))
HeadMeanMasked(d, j, k) == d.mask # None /\ ValidHead(d, j, k) = <<>>

\* subtract_background: self.data -= mean.  A masked array keeps the values
\* of its invalid entries and takes over the mask of the mean.
SubtractBackgroundCall(d, n) ==
    LET k == HeadRows(n, d.data.nr)
    IN  [d EXCEPT
            !.data = Mat(d.data.nr, d.data.nc,
                         LAMBDA i, j :
                            IF MaskedAt(d, i, j) \/ HeadMeanMasked(d, j, k)
                            THEN d.data.v[i][j]
                            ELSE FSub(d.data.v[i][j], HeadMean(d, j, k))),
            !.mask = IF d.mask = None THEN None
                     ELSE Mat(d.data.nr, d.data.nc,
                              LAMBDA i, j :
                                 d.mask.v[i][j] \/ HeadMeanMasked(d, j, k))]

-----------------------------------------------------------------------------
(* quickcontrol.parse_str.  A string is a sequence of characters.            *)

Digits == {"0", "1", "2", "3", "4", "5", "6", "7", "8", "9"}
FloatChars == Digits \cup {"-", ".", "E"}       \* set('-.0123456789E')
ListChars == FloatChars \cup {","}              \* set('-.0123456789E,')

Chars(s) == {s[i] : i \in 1..Len(s)}            \* set(s)

AllDigits(s) == Chars(s) \subseteq Digits

\* Mutant of IsNumeric: a leading minus sign is let through.
IsNumeric_Signed(s) ==
    \/ s # <<>> /\ AllDigits(s)
    \/ Len(s) >= 2 /\ s[1] = "-" /\ AllDigits(Tail(s))

\* s.isnumeric(), on the characters met here: not empty, digits only
IsNumeric(s) == s # <<>> /\ AllDigits(s)

DigitVal(c) ==
    (CHOOSE i \in 1..10 :
        <<"0", "1", "2", "3", "4", "5", "6", "7", "8", "9">>[i] = c) - 1

\* int(s) of a string of digits, after a minus sign or not
RECURSIVE ToInt(_)
ToInt(s) ==
    IF s = <<>> THEN 0
    ELSE IF s[1] = "-" THEN 0 - ToInt(Tail(s))
    ELSE 10 * ToInt(SubSeq(s, 1, Len(s) - 1)) + DigitVal(s[Len(s)])

Positions(s, c) == {i \in 1..Len(s) : s[i] = c}

\* digits with at most one point among them and at least one digit
IsMantissa(m) ==
    /\ Chars(m) \subseteq Digits \cup {"."}
    /\ Cardinality(Positions(m, ".")) <= 1
    /\ Chars(m) \cap Digits # {}

\* digits after an optional minus sign
IsExponent(e) ==
    LET d == IF e # <<>> /\ e[1] = "-" THEN Tail(e) ELSE e
    IN  d # <<>> /\ AllDigits(d)

\* The position of the E that starts the exponent, 0 when there is none
EPos(u) == IF Positions(u, "E") = {} THEN 0 ELSE CHOOSE q \in Positions(u, "E") : TRUE

IsUnsignedFloat(u) ==
    IF Positions(u, "E") = {} THEN IsMantissa(u)
    ELSE /\ Cardinality(Positions(u, "E")) = 1
         /\ IsMantissa(SubSeq(u, 1, EPos(u) - 1))
         /\ IsExponent(SubSeq(u, EPos(u) + 1, Len(u)))

\* Does float(s) accept s?  For a string over '-.0123456789E,': an optional
\* minus sign, a mantissa and an optional exponent.
FloatAccepts(s) ==
    /\ s # <<>>
    /\ Chars(s) \subseteq FloatChars
    /\ IF s[1] = "-" THEN IsUnsignedFloat(Tail(s)) ELSE IsUnsignedFloat(s)

\* m * 10^e without trailing zeros in m
RECURSIVE Normal(_, _)
Normal(m, e) ==
    IF m = 0 THEN <<0, 0>>
    ELSE IF m % 10 = 0 THEN Normal(m \div 10, e + 1)
    ELSE <<m, e>>

\* float(s) of an accepted string, as <<m, e>> standing for m * 10^e
FloatValue(s) ==
    LET neg == s[1] = "-"
        u == IF neg THEN Tail(s) ELSE s
        q == EPos(u)
        mant == IF q = 0 THEN u ELSE SubSeq(u, 1, q - 1)
        ex == IF q = 0 THEN <<>> ELSE SubSeq(u, q + 1, Len(u))
        dot == IF Positions(mant, ".") = {} THEN Len(mant) + 1
               ELSE CHOOSE i \in Positions(mant, ".") : TRUE
        whole == SubSeq(mant, 1, dot - 1)
        frac == SubSeq(mant, dot + 1, Len(mant))
        m == ToInt(whole \o frac)
        e == IF ex = <<>> THEN 0
             ELSE IF ex[1] = "-" THEN 0 - ToInt(Tail(ex)) ELSE ToInt(ex)
    IN  Normal(IF neg THEN 0 - m ELSE m, e - Len(frac))

\* s.split(',')
RECURSIVE Split(_)
Split(s) ==
    IF Positions(s, ",") = {} THEN <<s>>
    ELSE LET q == CHOOSE i \in Positions(s, ",") :
                     \A k \in Positions(s, ",") : i <= k
         IN  <<SubSeq(s, 1, q - 1)>> \o Split(SubSeq(s, q + 1, Len(s)))

\* A value of Python, with its type
Value(type, value) == [type |-> type, value |-> value]

\* parse_str(s)
ParseStrCall(s) ==
    IF IsNumeric(s) THEN Returned(Value("int", ToInt(s)))
    ELSE IF Chars(s) \ FloatChars = {}
    THEN IF FloatAccepts(s) THEN Returned(Value("float", FloatValue(s)))
         ELSE Returned(Value("str", s))
    ELSE IF Chars(s) \ ListChars = {}
    THEN LET parts == Split(s)
         IN  IF \A k \in 1..Len(parts) : FloatAccepts(parts[k])
             THEN Returned(Value("list",
                      [k \in 1..Len(parts) |-> FloatValue(parts[k])]))
             ELSE Raised("ValueError")
    ELSE IF s = <<"T", "R", "U", "E">> THEN Returned(Value("bool", TRUE))
    ELSE IF s = <<"F", "A", "L", "S", "E">> THEN Returned(Value("bool", FALSE))
    ELSE Returned(Value("str", s))

-----------------------------------------------------------------------------
(* quickcontrol.QC2DSpec: the attributes attrs computes in turn (t, t1,      *)
(* par_data, per_data, pump_freq) and make_ds.  Times are kept in fs; a      *)
(* transformed spectrum is known by the origin of its entries, not by their  *)
(* values.                                                                   *)

Upsampling == 2              \* upsampling: int = 2

\* np.arange(0.0, end + 1, step) for whole end >= 0 and step > 0
Arange(end, step) == [k \in 1..(end \div step + 1) |-> (k - 1) * step]

\* The object once attrs has set t and t1; dir is what the globs will find,
\* scans of dir[which][T] files for waiting time T of polarisation which.
QCInit(info, dir) ==
    [info |-> info, dir |-> dir,
     t |-> info.waiting,
     t1 |-> Arange(info.final, info.step),
     par_data |-> None, per_data |-> None, pump_freq |-> None,
     pc |-> "par"]

\* The waiting times, from 0, at which _loader finds no scan file
Unloaded(q, which) == {k \in 0..(Len(q.t) - 1) : q.dir[which][k + 1] = 0}

\* The first of them; len(self.t) when every waiting time has a scan
FirstUnloaded(q, which) ==
    IF Unloaded(q, which) = {} THEN Len(q.t)
    ELSE CHOOSE k \in Unloaded(q, which) : \A j \in Unloaded(q, which) : k <= j

\* data_dict of _loader(which): the stack of scans np.array(data) of every
\* waiting time before the first one without a scan file.  A scan file is a
\* table of len(t1) + 1 rows with the delays in its first column.
LoaderDict(q, which) ==
    [k \in 0..(FirstUnloaded(q, which) - 1) |->
        [T |-> k, scans |-> q.dir[which][k + 1],
         rows |-> Len(q.t1) + 1, cols |-> Len(q.dir.probe) + 1]]

\* self.t after _loader(which): "self.t = self.t[:t+1]" at the first waiting
\* time t without a scan file
LoaderT(q, which) ==
    IF Unloaded(q, which) = {} THEN q.t
    ELSE SubSeq(q.t, 1, FirstUnloaded(q, which) + 1)

\* len(np.fft.rfftfreq(n, d)) and the number of rows of np.fft.rfft(..., n=n)
RfftLen(n) == n \div 2 + 1

\* _calc_freqs: one pump frequency per bin of the transform; t1[1] has to
\* exist
CalcFreqsRaises(q) == IF Len(q.t1) < 2 THEN "IndexError" ELSE "none"
CalcFreqs(q) == [p \in 1..RfftLen(Upsampling * Len(q.t1)) |-> p - 1]

\* calc_spec()[k]: np.fft.rfft(d * win, axis=0, n=upsampling * len(t1)).real
\* of the mean scan d[:-1, 1:], an array of (pump bins, probe channels)
SpecOf(q, k) ==
    Mat(RfftLen(Upsampling * Len(q.t1)), q.par_data[k].cols - 1,
        LAMBDA p, w : [T |-> k, pump |-> p, probe |-> w])

\* np.dstack(list) of K arrays of shape (a, b): shape (a, b, K)
DStack(list) ==
    [shape |-> <<list[1].nr, list[1].nc, Len(list)>>,
     v |-> [i \in 1..list[1].nr |-> [j \in 1..list[1].nc |->
              [k \in 1..Len(list) |-> list[k].v[i][j]]]]]

\* a.T of a 3D array: the axes in reverse order
Transposed(a) ==
    [shape |-> <<a.shape[3], a.shape[2], a.shape[1]>>,
     v |-> [k \in 1..a.shape[3] |-> [j \in 1..a.shape[2] |->
              [i \in 1..a.shape[1] |-> a.v[i][j][k]]]]]

\* TwoDim(t=..., pump_wn=..., probe_wn=..., spec2d=...)
TwoDim(t, pump_wn, probe_wn, spec2d) ==
    [t |-> t, pump_wn |-> pump_wn, probe_wn |-> probe_wn, spec2d |-> spec2d]

\* make_ds: the keys of par_data are 0, 1, ... in the order they were loaded;
\* np.dstack refuses an empty list.
MakeDsCall(q) ==
    LET K == Cardinality(DOMAIN q.par_data)
        specs == [i \in 1..K |-> SpecOf(q, i - 1)]
    IN  IF K = 0 THEN Raised("ValueError")
        ELSE Returned(TwoDim(q.t, q.pump_freq, q.dir.probe,
                             Transposed(DStack(specs))))

-----------------------------------------------------------------------------
(* Inputs *)

Units == {"nm", "cm"}
DispUnits == {NoUnit}
ErrKinds == {"none", "ndarray"}

\* Injective sequences over S of length 1..n: spectral axes in any order.
InjSeqs(S, n) ==
    UNION {{s \in [1..k -> S] : \A i, j \in 1..k : s[i] = s[j] => i = j}
           : k \in 1..n}

WlInputs == InjSeqs(Coords, MaxN)

\* Delay times 0, 1, ..., m-1
TimeAxis(m) == [i \in 1..m |-> i - 1]
TInputs == {TimeAxis(m) : m \in 1..MaxM}

\* The spectral axes given in ascending order
AscendingAxes ==
    {w \in WlInputs : \A k \in 1..(Len(w) - 1) : w[k] < w[k + 1]}

\* The axes given to the constructor: an ascending spectral axis comes with
\* any time axis, an unsorted one with a short time axis.
AxisInputs ==
    {a \in WlInputs \X TInputs :
        a[1] \in AscendingAxes \/ Len(a[2]) <= MaxMShuffled}

\* A signal matrix in which every cell is different: 6 * (10 * column + row)
DataCell(i, j) == 6 * (10 * j + i)
DataInput(rows, cols) == Mat(rows, cols, DataCell)

\* Standard errors, positive and different in every cell
ErrCell(i, j) == 10 * j + i
ErrInput(rows, cols) == Mat(rows, cols, ErrCell)

\* Shapes of the data argument: the right one, one row or column too many,
\* and the transposed one.
DataShapes(m, n) == {<<m, n>>, <<m + 1, n>>, <<m, n + 1>>, <<n, m>>}

ErrArg(kind, rows, cols) == IF kind = "none" THEN None ELSE ErrInput(rows, cols)

\* Lists of at most MaxRanges ranges taken in order from a base list
SubLists(base) ==
    {Take(base, w) : w \in {Where(b) : b \in [1..Len(base) -> BOOLEAN]}}
RangeLists(base) == {r \in SubLists(base) : Len(r) <= MaxRanges}

\* (lower, upper) edges for the spectral axis: the first two touch at 2500 and
\* do not overlap, the third overlaps both.
FreqRangeBase == << <<1900, 2500>>, <<2500, 4500>>, <<2200, 5100>> >>

\* (lower, upper) edges for the time axis
TimeRangeBase == << <<1, 3>>, <<-1, 1>>, <<0, 5>> >>

-----------------------------------------------------------------------------
(* Actions *)

\* ds = DataSet(wl, t, data, err, freq_unit=..., disp_freq_unit=...), the
\* first call of a session: when it raises, the caller holds no instance.
Construct ==
    /\ ds = None
    /\ res = None
    /\ \E a \in AxisInputs, fu \in Units, dfu \in DispUnits, ek \in ErrKinds :
         \E shape \in DataShapes(Len(a[2]), Len(a[1])) :
           LET wl == a[1]
               t == a[2]
               data == DataInput(shape[1], shape[2])
               err == ErrArg(ek, shape[1], shape[2])
               out == NewDataSet(wl, t, data, None, err, None, "unset", fu, dfu)
           IN  /\ res' = out
               /\ ds' = IF out.status = "ok" THEN out.value ELSE None
               /\ last' = [op |-> "DataSet", wl |-> wl, t |-> t, data |-> data,
                           err |-> err, freq_unit |-> fu,
                           disp_freq_unit |-> dfu]
               /\ muts' = 0
    /\ UNCHANGED <<qc, store>>

\* res = ds.cut_freqs(freq_ranges, invert_sel, freq_unit)
CutFreqs ==
    /\ ds # None
    /\ \E R \in RangeLists(FreqRangeBase), inv \in BOOLEAN, fu \in Units :
         /\ res' = CutFreqsCall(ds, R, inv, fu)
         /\ last' = [op |-> "cut_freqs", ranges |-> R, invert_sel |-> inv,
                     freq_unit |-> fu]
    /\ UNCHANGED <<ds, muts, qc, store>>

\* res = ds.cut_times(time_ranges, invert_sel)
CutTimes ==
    /\ ds # None
    /\ \E R \in RangeLists(TimeRangeBase), inv \in BOOLEAN :
         /\ res' = CutTimesCall(ds, R, inv)
         /\ last' = [op |-> "cut_times", ranges |-> R, invert_sel |-> inv]
    /\ UNCHANGED <<ds, muts, qc, store>>

\* res = ds.bin_freqs(n, freq_unit); idx is the call's local index array
BinFreqs ==
    /\ ds # None
    /\ \E n \in 0..MaxBins, fu \in Units :
         /\ res' = BinFreqsCall(ds, n, fu)
         /\ last' = [op |-> "bin_freqs", n |-> n, freq_unit |-> fu,
                     idx |-> BinIdx(BinAxis(ds, fu), n)]
    /\ UNCHANGED <<ds, muts, qc, store>>

Init ==
    /\ ds = None
    /\ res = None
    /\ last = [op |-> "none"]
    /\ muts = 0
    /\ qc = None
    /\ store = None

Next == Construct \/ CutFreqs \/ CutTimes \/ BinFreqs

Spec == Init /\ [][Next]_vars

-----------------------------------------------------------------------------
(* The in-place methods, explored on their own from freshly built instances *)

ErrKindsInPlace == {"none", "ndarray", "masked"}

\* err as a masked array starts with nothing marked invalid
ErrMaskArg(kind, rows, cols) ==
    IF kind = "masked" THEN Mat(rows, cols, LAMBDA i, j : FALSE) ELSE None

InPlaceDataSets ==
    {DataSetInit(w, TimeAxis(m), DataInput(m, Len(w)), None,
                 ErrArg(ek, m, Len(w)), ErrMaskArg(ek, m, Len(w)), "unset",
                 "nm", NoUnit)
        : w \in AscendingAxes, m \in 1..MaxM, ek \in ErrKindsInPlace}

\* An in-place call ends either with the exception exc, the instance
\* untouched, or with the instance after.
InPlace(exc, after, call) ==
    /\ ds' = IF exc = "none" THEN after ELSE ds
    /\ res' = IF exc = "none" THEN Returned(None) ELSE Raised(exc)
    /\ last' = call
    /\ muts' = muts + 1
    /\ UNCHANGED <<qc, store>>

\* ds.mask_freqs(freq_ranges, invert_sel, freq_unit)
MaskFreqs ==
    /\ ds # None /\ muts < MaxMut
    /\ \E R \in RangeLists(FreqRangeBase), inv \in BOOLEAN, fu \in Units :
         InPlace(MaskFreqsRaises(ds), MaskFreqsCall(ds, R, inv, fu),
                 [op |-> "mask_freqs", ranges |-> R, invert_sel |-> inv,
                  freq_unit |-> fu])

\* ds.mask_times(time_ranges, invert_sel)
MaskTimes ==
    /\ ds # None /\ muts < MaxMut
    /\ \E R \in RangeLists(TimeRangeBase), inv \in BOOLEAN :
         InPlace(MaskTimesRaises(ds), MaskTimesCall(ds, R, inv),
                 [op |-> "mask_times", ranges |-> R, invert_sel |-> inv])

\* ds.subtract_background(n)
SubtractBackground ==
    /\ ds # None /\ muts < MaxMut
    /\ \E n \in (-1)..(MaxM + 1) :
         InPlace("none", SubtractBackgroundCall(ds, n),
                 [op |-> "subtract_background", n |-> n])

InitInPlace ==
    /\ ds \in InPlaceDataSets
    /\ res = None
    /\ last = [op |-> "none"]
    /\ muts = 0
    /\ qc = None
    /\ store = None

NextInPlace == MaskFreqs \/ MaskTimes \/ SubtractBackground

SpecInPlace == InitInPlace /\ [][NextInPlace]_vars

-----------------------------------------------------------------------------
(* bin_times, concat_datasets and estimate_dispersion, explored on their own *)
(* from freshly built instances, one call on each                            *)

DataKinds == {"plain", "spike"}

\* A signal whose first row stands out: within a column the first sample is
\* far above the others, which differ by at most one.
SpikeCell(i, j) ==
    IF i = 1 THEN 60 * j + 600 ELSE IF i = 2 THEN 60 * j + 1 ELSE 60 * j

DataArg(kind, rows, cols) ==
    IF kind = "plain" THEN DataInput(rows, cols) ELSE Mat(rows, cols, SpikeCell)

ReduceDataSets ==
    {DataSetInit(w, TimeAxis(m), DataArg(dk, m, Len(w)), None,
                 ErrArg(ek, m, Len(w)), None, "unset", "nm", dfu)
        : w \in AscendingAxes, m \in 1..MaxM, dk \in DataKinds,
          ek \in ErrKinds, dfu \in DispUnits}

\* The spectral axis of the instances handed to concat_datasets: apart from,
\* and between, the coordinates of the instance that merges them
OtherAxis == <<2250, 8000>>

\* A time axis that differs from TimeAxis(m) in its last value only
LateAxis(m) == [i \in 1..m |-> IF i = m THEN m ELSE i - 1]

OtherCell(i, j) == 7 * (10 * j + i)

\* The instances handed to concat_datasets: on the time axis of ds, on a
\* longer or shorter one, and on one of the same length with another value
OtherDataSets ==
    {DataSetInit(OtherAxis, t, Mat(Len(t), Len(OtherAxis), OtherCell), None,
                 None, None, "unset", "nm", NoUnit)
        : t \in TInputs \cup {LateAxis(m) : m \in 1..MaxM}}

\* res = ds.concat_datasets(other_ds)
ConcatDatasets ==
    /\ ds # None /\ res = None
    /\ \E other_ds \in OtherDataSets :
         /\ res' = ConcatDatasetsCall(ds, other_ds)
         /\ last' = [op |-> "concat_datasets", other_ds |-> other_ds]
    /\ UNCHANGED <<ds, muts, qc, store>>

\* res = ds.bin_times(n, start_index)
BinTimes ==
    /\ ds # None /\ res = None
    /\ \E n \in (-1)..MaxM, start_index \in 0..Len(ds.t) :
         /\ res' = BinTimesCall(ds, n, start_index)
         /\ last' = [op |-> "bin_times", n |-> n, start_index |-> start_index]
    /\ UNCHANGED <<ds, muts, qc, store>>

\* The heuristics asked for: the three names of the docstring and a callable
Heuristics == {"abs", "diff", "gauss_diff", "<function>"}

\* heuristic_args[0]
Thresholds == {1, 70, 700}

\* res = ds.estimate_dispersion(heuristic, (val,))
EstimateDispersion ==
    /\ ds # None /\ res = None
    /\ \E heuristic \in Heuristics, val \in Thresholds :
         /\ heuristic = "abs" => Len(ds.wavelengths) <= Deg + 1
         /\ res' = EstimateDispersionCall(ds, heuristic, val)
         /\ last' = [op |-> "estimate_dispersion", heuristic |-> heuristic,
                     val |-> val]
    /\ UNCHANGED <<ds, muts, qc, store>>

InitReduce ==
    /\ ds \in ReduceDataSets
    /\ res = None
    /\ last = [op |-> "none"]
    /\ muts = 0
    /\ qc = None
    /\ store = None

NextReduce == BinTimes \/ ConcatDatasets \/ EstimateDispersion

SpecReduce == InitReduce /\ [][NextReduce]_vars

-----------------------------------------------------------------------------
(* parse_str on the values of an info file *)

\* Characters of the values: two digits, the three other characters of a
\* number, the comma and a letter
ParseChars == {"0", "5", "-", ".", "E", ",", "x"}

\* Values spelled out: the two literals, a lower-case one and a version string
Literals ==
    {<<"T", "R", "U", "E">>, <<"F", "A", "L", "S", "E">>,
     <<"t", "r", "u", "e">>, <<"1", ".", "2", ".", "3">>}

ParseInputs ==
    UNION {[1..k -> ParseChars] : k \in 0..MaxStr} \cup Literals

\* res = parse_str(s)
ParseStr ==
    /\ \E s \in ParseInputs :
         /\ res' = ParseStrCall(s)
         /\ last' = [op |-> "parse_str", s |-> s]
    /\ UNCHANGED <<ds, muts, qc, store>>

SpecParse == Init /\ [][ParseStr]_vars

-----------------------------------------------------------------------------
(* Loading a 2D measurement: QC2DSpec(fname), then make_ds() *)

\* 'Waiting Time Delays' of the info file: two or more delays in fs
WaitingLists == {[i \in 1..n |-> 1000 * (i - 1)] : n \in 2..MaxT}

\* 'Final Delay (fs)' and 'Step Size (fs)' of the info file
DelayScans == {<<0, 50>>, <<50, 50>>, <<120, 50>>}

\* Scan files found for one waiting time and polarisation
ScanCounts == {0, 2}

\* The probe axis of the scan files, one wavenumber per pixel
ProbeAxis == [w \in 1..Pixels |-> 2000 + 10 * w]

\* qc = QC2DSpec(fname): attrs sets t and t1 from the info file
QCOpen ==
    /\ qc = None
    /\ \E waiting \in WaitingLists, delays \in DelayScans :
         \E par, per \in [1..Len(waiting) -> ScanCounts] :
            qc' = QCInit([waiting |-> waiting, final |-> delays[1],
                          step |-> delays[2]],
                         [PAR |-> par, PER |-> per, probe |-> ProbeAxis])
    /\ last' = [op |-> "QC2DSpec"]
    /\ UNCHANGED <<ds, res, muts, store>>

\* par_data = self._loader('PAR')
LoadPar ==
    /\ qc # None /\ qc.pc = "par"
    /\ qc' = [qc EXCEPT !.par_data = LoaderDict(qc, "PAR"),
                        !.t = LoaderT(qc, "PAR"),
                        !.pc = "per"]
    /\ UNCHANGED <<ds, res, last, muts, store>>

\* per_data = self._loader('PER')
LoadPer ==
    /\ qc # None /\ qc.pc = "per"
    /\ qc' = [qc EXCEPT !.per_data = LoaderDict(qc, "PER"),
                        !.t = LoaderT(qc, "PER"),
                        !.pc = "freqs"]
    /\ UNCHANGED <<ds, res, last, muts, store>>

\* pump_freq = self._calc_freqs(), the last attribute: the constructor
\* returns, or raises what _calc_freqs raised
LoadFreqs ==
    /\ qc # None /\ qc.pc = "freqs"
    /\ IF CalcFreqsRaises(qc) = "none"
       THEN /\ qc' = [qc EXCEPT !.pump_freq = CalcFreqs(qc), !.pc = "ready"]
            /\ res' = Returned(None)
       ELSE /\ qc' = [qc EXCEPT !.pc = "failed"]
            /\ res' = Raised(CalcFreqsRaises(qc))
    /\ UNCHANGED <<ds, last, muts, store>>

\* res = qc.make_ds()
MakeDs ==
    /\ qc # None /\ qc.pc = "ready"
    /\ res' = MakeDsCall(qc)
    /\ last' = [op |-> "make_ds"]
    /\ UNCHANGED <<ds, muts, qc, store>>

NextQC == QCOpen \/ LoadPar \/ LoadPer \/ LoadFreqs \/ MakeDs

SpecQC == Init /\ [][NextQC]_vars

-----------------------------------------------------------------------------
(* Storage.  An attribute of an instance is a reference to an array, and     *)
(* two attributes bound to one array see each other's writes.  store keeps   *)
(* the arrays by address (heap), the references of the arrays the caller     *)
(* gave the constructor (arg), those of the instance ds and those of the     *)
(* instance the last reduction returned (res).  ds is what the instance's    *)
(* references show.                                                          *)

Owners == {"arg", "ds", "res"}
ArrayFields == {"wl", "t", "data", "err", "wavelengths", "wavenumbers"}
Addr == Owners \X ArrayFields

\* An array: its values and, for a masked array, its mask
Cell(a, mask) == [a |-> a, mask |-> mask]

\* A reduction that put the arrays it makes where the source keeps its own
FreshRef_Source(owner, f) == <<"ds", f>>

\* The address of the array an expression newly allocates for owner's f
FreshRef(owner, f) == <<owner, f>>

\* __init__: "self.wl = ..." (lines 79, 83), "self.t = t" and "self.err =
\* err" bind the arguments themselves; "self.wavelengths[idx]",
\* "self.wavenumbers[idx]" and "self.data[:, idx]" (lines 94-96) are new
\* arrays.  The attributes that are no arrays are kept next to the references.
InitRefs(owner, args, inst) ==
    [wl |-> args.wl,
     wavelengths |-> FreshRef(owner, "wavelengths"),
     wavenumbers |-> FreshRef(owner, "wavenumbers"),
     t |-> args.t,
     data |-> FreshRef(owner, "data"),
     err |-> args.err,
     name |-> inst.name,
     disp_freq_unit |-> inst.disp_freq_unit,
     plot_freq_unit |-> inst.plot_freq_unit]

\* The instance seen through its references
View(h, r) ==
    [wl |-> h[r.wl].a,
     wavelengths |-> h[r.wavelengths].a,
     wavenumbers |-> h[r.wavenumbers].a,
     t |-> h[r.t].a,
     data |-> h[r.data].a,
     mask |-> h[r.data].mask,
     err |-> IF r.err = None THEN None ELSE h[r.err].a,
     err_mask |-> IF r.err = None THEN None ELSE h[r.err].mask,
     name |-> r.name,
     disp_freq_unit |-> r.disp_freq_unit,
     plot_freq_unit |-> r.plot_freq_unit]

\* The heap once DataSet(...) has built inst for owner: the arrays the call
\* expression allocated for wl, t and err are stored under the owner's
\* addresses, an argument that is an existing array stays where it is, and
\* the three arrays of lines 94-96 are stored.
Allocate(h, owner, args, inst) ==
    LET fresh == {f \in {"wl", "t", "err"} : args[f] = FreshRef(owner, f)}
        argcell == [f \in {"wl", "t", "err"} |->
                       IF f = "wl" THEN Cell(inst.wl, None)
                       ELSE IF f = "t" THEN Cell(inst.t, None)
                       ELSE Cell(inst.err, inst.err_mask)]
    IN  [x \in Addr |->
            IF x = FreshRef(owner, "wavelengths")
            THEN Cell(inst.wavelengths, None)
            ELSE IF x = FreshRef(owner, "wavenumbers")
            THEN Cell(inst.wavenumbers, None)
            ELSE IF x = FreshRef(owner, "data")
            THEN Cell(inst.data, inst.mask)
            ELSE IF \E f \in fresh : x = FreshRef(owner, f)
            THEN argcell[CHOOSE f \in fresh : x = FreshRef(owner, f)]
            ELSE h[x]]

\* The arguments of the DataSet(...) call that ends each reduction
\* cut_freqs: DataSet(arr[idx], self.t, self.data[:, idx], err, freq_unit)
CutFreqsArgs(src) ==
    [wl |-> FreshRef("res", "wl"), t |-> src.t,
     err |-> IF src.err = None THEN None ELSE FreshRef("res", "err")]

\* cut_times: DataSet(self.wavelengths, self.t[idx], self.data[idx, :], err)
CutTimesArgs(src) ==
    [wl |-> src.wavelengths, t |-> FreshRef("res", "t"),
     err |-> IF src.err = None THEN None ELSE FreshRef("res", "err")]

\* bin_freqs: DataSet(binned_wl, self.t, binned, ...)
BinFreqsArgs(src) == [wl |-> FreshRef("res", "wl"), t |-> src.t, err |-> None]

\* bin_times: DataSet(self.wavelengths, new_t, new_data, ...)
BinTimesArgs(src) ==
    [wl |-> src.wavelengths, t |-> FreshRef("res", "t"), err |-> None]

\* concat_datasets: DataSet(all_wls, self.t, all_data, ...)
ConcatArgs(src) == [wl |-> FreshRef("res", "wl"), t |-> src.t, err |-> None]

\* estimate_dispersion: DataSet(self.wavelengths, self.t, new_data.data)
EstimateArgs(src) == [wl |-> src.wavelengths, t |-> src.t, err |-> None]

\* The store after self.<reduction>(...) returned the instance inst, built by
\* DataSet(...) on the arguments args
Reduced(st, args, inst) ==
    [st EXCEPT !.heap = Allocate(st.heap, "res", args, inst),
               !.res = InitRefs("res", args, inst)]

\* The store after an in-place method left the instance at references r as
\* after: mask_freqs and mask_times write the mask of self.data and
\* self.err.mask, subtract_background writes self.data
Written(st, r, after) ==
    [st EXCEPT !.heap =
        [x \in Addr |->
            IF x = r.data THEN Cell(after.data, after.mask)
            ELSE IF r.err # None /\ x = r.err
            THEN Cell(after.err, after.err_mask)
            ELSE st.heap[x]]]

\* The store after ds = DataSet(wl, t, data, err) on arrays of the caller
Built(wl, t, data, err, err_mask) ==
    LET args == [wl |-> FreshRef("arg", "wl"), t |-> FreshRef("arg", "t"),
                 err |-> IF err = None THEN None ELSE FreshRef("arg", "err")]
        inst == DataSetInit(wl, t, data, None, err, err_mask, "unset", "nm",
                            NoUnit)
        h0 == [x \in Addr |->
                  IF x = args.wl THEN Cell(wl, None)
                  ELSE IF x = args.t THEN Cell(t, None)
                  ELSE IF err # None /\ x = args.err THEN Cell(err, err_mask)
                  ELSE None]
    IN  [heap |-> Allocate(h0, "ds", args, inst),
         arg |-> args,
         ds |-> InitRefs("ds", args, inst),
         res |-> None]

\* The instance the last reduction returned, as it is now
Result == View(store.heap, store.res)

\* What the caller builds the instance from: an ascending and a descending
\* spectral axis, three delay times, err absent, plain or masked
StorageAxes == {<<2000, 4000>>, <<5000, 2500, 2000>>}
StorageTimes == TimeAxis(3)
StorageStores ==
    {Built(w, StorageTimes, DataInput(Len(StorageTimes), Len(w)),
           ErrArg(ek, Len(StorageTimes), Len(w)),
           ErrMaskArg(ek, Len(StorageTimes), Len(w)))
        : w \in StorageAxes, ek \in ErrKindsInPlace}

StorageFreqRanges == RangeLists(FreqRangeBase)
StorageTimeRanges == RangeLists(TimeRangeBase)

Reductions ==
    {"cut_freqs", "cut_times", "bin_freqs", "bin_times", "concat_datasets",
     "estimate_dispersion"}
InPlaceOps == {"mask_freqs", "mask_times", "subtract_background"}

\* A reduction of ds: outcome is what the call leaves behind, inst the
\* DataSet among what it returned
Reduce(outcome, inst, args, call) ==
    /\ res' = outcome
    /\ store' = IF outcome.status = "ok" THEN Reduced(store, args, inst)
                ELSE store
    /\ ds' = View(store'.heap, store'.ds)
    /\ last' = call
    /\ UNCHANGED <<muts, qc>>

\* One reduction that returns is explored on each instance
CanReduce == store # None /\ store.res = None /\ last.op \notin Reductions

StoreCutFreqs ==
    /\ CanReduce
    /\ \E R \in StorageFreqRanges, inv \in BOOLEAN, fu \in Units :
         LET r == CutFreqsCall(ds, R, inv, fu)
         IN  Reduce(r, r.value, CutFreqsArgs(store.ds),
                    [op |-> "cut_freqs", ranges |-> R, invert_sel |-> inv,
                     freq_unit |-> fu])

StoreCutTimes ==
    /\ CanReduce
    /\ \E R \in StorageTimeRanges, inv \in BOOLEAN :
         LET r == CutTimesCall(ds, R, inv)
         IN  Reduce(r, r.value, CutTimesArgs(store.ds),
                    [op |-> "cut_times", ranges |-> R, invert_sel |-> inv])

StoreBinFreqs ==
    /\ CanReduce
    /\ \E n \in 1..2, fu \in Units :
         LET r == BinFreqsCall(ds, n, fu)
         IN  Reduce(r, r.value, BinFreqsArgs(store.ds),
                    [op |-> "bin_freqs", n |-> n, freq_unit |-> fu])

StoreBinTimes ==
    /\ CanReduce
    /\ \E n \in 1..2 :
         LET r == BinTimesCall(ds, n, 0)
         IN  Reduce(r, r.value, BinTimesArgs(store.ds),
                    [op |-> "bin_times", n |-> n, start_index |-> 0])

StoreConcat ==
    /\ CanReduce
    /\ LET other_ds == DataSetInit(OtherAxis, ds.t,
                                   Mat(Len(ds.t), Len(OtherAxis), OtherCell),
                                   None, None, None, "unset", "nm", NoUnit)
           r == ConcatDatasetsCall(ds, other_ds)
       IN  Reduce(r, r.value, ConcatArgs(store.ds),
                  [op |-> "concat_datasets", other_ds |-> other_ds])

StoreEstimate ==
    /\ CanReduce
    /\ Len(ds.wavelengths) <= Deg + 1
    /\ LET r == EstimateDispersionCall(ds, "abs", 70)
       IN  Reduce(r, IF r.status = "ok" THEN r.value.correct_ds ELSE None,
                  EstimateArgs(store.ds),
                  [op |-> "estimate_dispersion", heuristic |-> "abs",
                   val |-> 70])

\* The instances an in-place method may be called on
Targets == {"ds"} \cup (IF store.res = None THEN {} ELSE {"res"})

\* An in-place call on the instance at store[target].  No two in-place calls
\* are explored in a row.
StoreInPlace(target, exc, after, call) ==
    /\ store' = IF exc = "none" THEN Written(store, store[target], after)
                ELSE store
    /\ ds' = View(store'.heap, store'.ds)
    /\ res' = IF exc = "none" THEN Returned(None) ELSE Raised(exc)
    /\ last' = call
    /\ UNCHANGED <<muts, qc>>

CanWrite == store # None /\ last.op \notin InPlaceOps

StoreMaskFreqs ==
    /\ CanWrite
    /\ \E target \in Targets, R \in StorageFreqRanges, inv \in BOOLEAN,
          fu \in Units :
         LET d == View(store.heap, store[target])
         IN  StoreInPlace(target, MaskFreqsRaises(d),
                          MaskFreqsCall(d, R, inv, fu),
                          [op |-> "mask_freqs", target |-> target,
                           ranges |-> R, invert_sel |-> inv,
                           freq_unit |-> fu])

StoreMaskTimes ==
    /\ CanWrite
    /\ \E target \in Targets, R \in StorageTimeRanges, inv \in BOOLEAN :
         LET d == View(store.heap, store[target])
         IN  StoreInPlace(target, MaskTimesRaises(d),
                          MaskTimesCall(d, R, inv),
                          [op |-> "mask_times", target |-> target,
                           ranges |-> R, invert_sel |-> inv])

StoreSubtractBackground ==
    /\ CanWrite
    /\ \E target \in Targets :
         LET d == View(store.heap, store[target])
         IN  StoreInPlace(target, "none", SubtractBackgroundCall(d, 1),
                          [op |-> "subtract_background", target |-> target,
                           n |-> 1])

InitStorage ==
    /\ store \in StorageStores
    /\ ds = View(store.heap, store.ds)
    /\ res = None
    /\ last = [op |-> "none"]
    /\ muts = 0
    /\ qc = None

NextStorage ==
    \/ StoreCutFreqs \/ StoreCutTimes \/ StoreBinFreqs \/ StoreBinTimes
    \/ StoreConcat \/ StoreEstimate
    \/ StoreMaskFreqs \/ StoreMaskTimes \/ StoreSubtractBackground

SpecStorage == InitStorage /\ [][NextStorage]_vars

-----------------------------------------------------------------------------
(* Properties *)

Ok(op) == last.op = op /\ res.status = "ok"

C2_SortInvariant ==
    Ok("DataSet") =>
        LET d == res.value
            N == Len(last.wl)
            own == IF last.freq_unit = "nm" THEN d.wavelengths ELSE d.wavenumbers
            other == IF last.freq_unit = "nm" THEN d.wavenumbers ELSE d.wavelengths
        IN  /\ Len(d.wavelengths) = N /\ Len(d.wavenumbers) = N /\ d.data.nc = N
            /\ \A k \in 1..(N - 1) : d.wavelengths[k] <= d.wavelengths[k + 1]
            /\ \A j \in 1..N : \E k \in 1..N :
                  /\ own[k] = last.wl[j]
                  /\ other[k] = E7 \div last.wl[j]
                  /\ Col(d.data, k) = Col(last.data, j)

\* An instance was built from a wavelength axis given in descending order.
C2_Witness ==
    /\ Ok("DataSet")
    /\ last.freq_unit = "nm"
    /\ Len(last.wl) = 3
    /\ last.wl[1] > last.wl[2] /\ last.wl[2] > last.wl[3]

\* C3 (as claimed): in an instance built with err, column k of err belongs to
\* the same input channel as column k of the signal.
C3_ErrFollowsSignal ==
    (Ok("DataSet") /\ last.err # None) =>
        \A k \in 1..res.value.data.nc : \E j \in 1..last.data.nc :
            /\ Col(res.value.data, k) = Col(last.data, j)
            /\ Col(res.value.err, k) = Col(last.err, j)

\* x lies inside one of the ranges, edges included
InUnion(x, R) == \E i \in 1..Len(R) : R[i][1] <= x /\ x <= R[i][2]

\* C4 (as claimed): without invert, cut_times returns the rows whose delay
\* lies inside the union of the ranges and cut_freqs the columns whose
\* coordinate does; with invert, the others.
C4_CutKeepsRanges ==
    /\ Ok("cut_times") =>
          /\ res.value.t =
                Take(ds.t, Where([i \in 1..Len(ds.t) |->
                        InUnion(ds.t[i], last.ranges) # last.invert_sel]))
          /\ {Row(res.value.data, i) : i \in 1..res.value.data.nr} =
                {Row(ds.data, i) : i \in {i \in 1..Len(ds.t) :
                        InUnion(ds.t[i], last.ranges) # last.invert_sel}}
    /\ Ok("cut_freqs") =>
          {Col(res.value.data, k) : k \in 1..res.value.data.nc} =
              {Col(ds.data, k) : k \in {k \in 1..ds.data.nc :
                  InUnion(FreqAxis(ds, last.freq_unit)[k], last.ranges)
                      # last.invert_sel}}

NonOverlapping(R) ==
    \A i, j \in 1..Len(R) :
        i < j => (R[i][2] <= R[j][1] \/ R[j][2] <= R[i][1])

\* The channels of an instance: wavelength and signal column
Channels(d) == {<<d.wavelengths[k], Col(d.data, k)>> : k \in 1..d.data.nc}

\* C5: two successive cut_freqs calls on one instance with the same
\* non-overlapping ranges in nm and opposite invert_sel return instances whose
\* channels are disjoint and together are the channels of the instance, none
\* of them twice.
C5_Complement ==
    [][(/\ last.op = "cut_freqs" /\ last'.op = "cut_freqs"
        /\ ds' = ds
        /\ last.freq_unit = "nm" /\ last'.freq_unit = "nm"
        /\ last'.ranges = last.ranges
        /\ last'.invert_sel # last.invert_sel
        /\ NonOverlapping(last.ranges))
       => (/\ res.status = "ok" /\ res'.status = "ok"
           /\ Channels(res.value) \cap Channels(res'.value) = {}
           /\ Channels(res.value) \cup Channels(res'.value) = Channels(ds)
           /\ Cardinality(Channels(res.value)) = res.value.data.nc
           /\ Cardinality(Channels(res'.value)) = res'.value.data.nc)]_vars

\* cut_freqs with two non-overlapping ranges and invert_sel split a
\* three-channel instance into a non-empty part and a non-empty rest.
C5_Witness ==
    /\ Ok("cut_freqs")
    /\ last.freq_unit = "nm" /\ last.invert_sel
    /\ Len(last.ranges) = 2 /\ NonOverlapping(last.ranges)
    /\ ds.data.nc = 3
    /\ res.value.data.nc = 2

\* C6 (as claimed): cutting the result of cut_freqs again with the same
\* arguments returns the same wavelengths, wavenumbers, time axis and signal.
C6_Idempotent ==
    Ok("cut_freqs") =>
        LET again == CutFreqsCall(res.value, last.ranges, last.invert_sel,
                                  last.freq_unit)
        IN  /\ again.status = "ok"
            /\ again.value.wavelengths = res.value.wavelengths
            /\ again.value.wavenumbers = res.value.wavenumbers
            /\ again.value.t = res.value.t
            /\ again.value.data = res.value.data

\* The entries of the signal marked invalid
Invalid(d) ==
    {ij \in (1..d.data.nr) \X (1..d.data.nc) : MaskedAt(d, ij[1], ij[2])}

SameAxes(d, e) ==
    /\ d.wavelengths = e.wavelengths /\ d.wavenumbers = e.wavenumbers
    /\ d.t = e.t /\ Shape(d.data) = Shape(e.data)

\* C7 (as claimed): a mask_freqs call that returns leaves shape and axes alone
\* and newly marks exactly the columns its index array selects, the one
\* cut_freqs computes from the same arguments; a mask_times call that returns
\* does the same with the time rows its index array selects.
C7_MaskMarksSelection ==
    [][/\ (last'.op = "mask_freqs" /\ res'.status = "ok") =>
            LET idx == Selection(FreqAxis(ds, last'.freq_unit), last'.ranges,
                                 last'.invert_sel)
            IN  /\ SameAxes(ds, ds')
                /\ Invalid(ds') = Invalid(ds) \cup
                      {ij \in (1..ds.data.nr) \X (1..ds.data.nc) : idx[ij[2]]}
       /\ (last'.op = "mask_times" /\ res'.status = "ok") =>
            LET idx == Selection(ds.t, last'.ranges, last'.invert_sel)
            IN  /\ SameAxes(ds, ds')
                /\ Invalid(ds') = Invalid(ds) \cup
                      {ij \in (1..ds.data.nr) \X (1..ds.data.nc) : idx[ij[1]]}
      ]_vars

\* C8 (as claimed): subtract_background(n) with n <= 0 or n > len(t) raises
\* and leaves the instance as it was.
C8_InvalidNFails ==
    [][(/\ last'.op = "subtract_background"
        /\ (last'.n <= 0 \/ last'.n > Len(ds.t)))
       => (res'.status = "error" /\ ds' = ds)]_vars

\* C9: for n >= 1 the index array of bin_freqs cuts the channels into n
\* consecutive bins: it does not decrease, every channel lies in exactly one
\* bin and the bin sizes add up to the number of channels; the instance
\* returned has n spectral points and the time axis of the source.
C9_BinConservation ==
    (last.op = "bin_freqs" /\ last.n >= 1) =>
        LET idx == last.idx
            n == last.n
            N == ds.data.nc
        IN  /\ \A i \in 1..n : idx[i] <= idx[i + 1]
            /\ \A j \in 1..N :
                  Cardinality({i \in 1..n : idx[i] < j /\ j <= idx[i + 1]}) = 1
            /\ SumSeq([i \in 1..n |-> idx[i + 1] - idx[i]]) = N
            /\ res.status = "ok" =>
                  /\ Len(res.value.wavelengths) = n
                  /\ Len(res.value.wavenumbers) = n
                  /\ res.value.data.nc = n
                  /\ res.value.t = ds.t

\* Three channels were binned into two bins, neither of them empty.
C9_Witness ==
    /\ Ok("bin_freqs")
    /\ last.n = 2 /\ ds.data.nc = 3
    /\ last.idx[1] < last.idx[2] /\ last.idx[2] < last.idx[3]

\* C10 (as claimed): a bin_freqs call in which some bin holds no channel
\* raises.
C10_EmptyBinFails ==
    (/\ last.op = "bin_freqs"
     /\ \E i \in 1..last.n : last.idx[i] = last.idx[i + 1])
    => res.status = "error"


\* The rows of group g, counted from 1: groups of n rows from start_index on,
\* the last one ending with the axis
GroupRows(g, n, start_index, m) ==
    {i \in 1..m : start_index + (g - 1) * n < i /\ i <= start_index + g * n}

\* C11: for n >= 1 and 0 <= start_index < M, bin_times returns
\* ceil((M - start_index) / n) rows; every row from start_index on lies in
\* exactly one group; each output time is the (floored) mean of its group's
\* times, and each output sample whose group has no clipped sample in that
\* column is the (floored) mean of the group's samples.
C11_BinTimesGroups ==
    (/\ last.op = "bin_times" /\ last.n >= 1
     /\ last.start_index < Len(ds.t)) =>
        LET n == last.n
            s == last.start_index
            m == Len(ds.t)
            G == (m - s + n - 1) \div n
            grp(g) == GroupRows(g, n, s, m)
            tsum(g) == SumSeq([i \in 1..m |-> IF i \in grp(g) THEN ds.t[i] ELSE 0])
            col(g, j) == [i \in 1..m |-> IF i \in grp(g) THEN ds.data.v[i][j] ELSE 0]
            size(g) == Cardinality(grp(g))
        IN  /\ res.status = "ok"
            /\ Len(res.value.t) = G /\ res.value.data.nr = G
            /\ res.value.data.nc = ds.data.nc
            /\ \A i \in (s + 1)..m :
                  Cardinality({g \in 1..G : i \in grp(g)}) = 1
            /\ \A g \in 1..G :
                  /\ size(g) >= 1
                  /\ size(g) * res.value.t[g] <= tsum(g)
                  /\ tsum(g) < size(g) * (res.value.t[g] + 1)
                  /\ \A j \in 1..ds.data.nc :
                        LET x == Slice(Col(ds.data, j), s + (g - 1) * n,
                                       s + (g - 1) * n + size(g))
                            y == res.value.data.v[g][j]
                        IN  (\A r \in 1..Len(x) : ~Clipped(x)[r]) =>
                               /\ size(g) * y <= SumSeq(col(g, j))
                               /\ SumSeq(col(g, j)) < size(g) * (y + 1)

\* bin_times(2, 0) on five rows returned three rows.
C11_Witness ==
    /\ Ok("bin_times")
    /\ last.n = 2 /\ last.start_index = 0 /\ Len(ds.t) = 5
    /\ Len(res.value.t) = 3

\* bin_times took the mean of a group after clipping a sample of it.
C11_WitnessClipped ==
    /\ Ok("bin_times")
    /\ \E j \in 1..ds.data.nc :
          \E r \in 1..Len(ds.t) : Clipped(Col(ds.data, j))[r]
    /\ last.n = Len(ds.t) /\ last.start_index = 0


\* C12 (as claimed): concat_datasets raises whenever the two time axes differ
\* in length or in a value, and returns the merged instance, all columns of
\* both on the time axis of self, when they are equal.
C12_ConcatNeedsSameTimes ==
    last.op = "concat_datasets" =>
        IF ds.t = last.other_ds.t
        THEN /\ res.status = "ok"
             /\ res.value.data.nc =
                    Len(ds.wavelengths) + Len(last.other_ds.wavelengths)
             /\ res.value.t = ds.t
        ELSE res.status = "error"


\* C13 (as claimed): estimate_dispersion raises NotImplementedError for a
\* heuristic name that is not implemented and leaves the instance as it was;
\* a heuristic given as a callable is accepted, and the call returns.
C13_HeuristicDispatch ==
    [][last'.op = "estimate_dispersion" =>
          /\ last'.heuristic \in {"diff", "gauss_diff"} =>
                (res' = Raised("NotImplementedError") /\ ds' = ds)
          /\ last'.heuristic = "<function>" => res'.status = "ok"]_vars


\* An integer, signed or not, written out
IntegralText(s) ==
    \/ s # <<>> /\ AllDigits(s)
    \/ Len(s) >= 2 /\ s[1] = "-" /\ AllDigits(Tail(s))

\* C16 (as claimed): parse_str returns an int for an integer, signed or not,
\* otherwise a float for a string of digits, '.', '-' and 'E', otherwise a
\* list for a string of these and commas, otherwise a bool for TRUE and FALSE,
\* otherwise the text itself.
C16_NarrowestType ==
    last.op = "parse_str" =>
        LET s == last.s
            type == IF IntegralText(s) THEN "int"
                    ELSE IF Chars(s) \subseteq FloatChars THEN "float"
                    ELSE IF Chars(s) \subseteq ListChars THEN "list"
                    ELSE IF s \in {<<"T", "R", "U", "E">>,
                                   <<"F", "A", "L", "S", "E">>} THEN "bool"
                    ELSE "str"
        IN  /\ res.status = "ok"
            /\ res.value.type = type
            /\ type = "str" => res.value.value = s

\* Reading a float literal character by character: the state after c
FloatStep(q, c) ==
    CASE q = "start" /\ c = "-" -> "sign"
      [] q \in {"start", "sign", "int"} /\ c \in Digits -> "int"
      [] q \in {"start", "sign"} /\ c = "." -> "point"
      [] q = "int" /\ c = "." -> "frac"
      [] q \in {"point", "frac"} /\ c \in Digits -> "frac"
      [] q \in {"int", "frac"} /\ c = "E" -> "e"
      [] q = "e" /\ c = "-" -> "esign"
      [] q \in {"e", "esign", "exp"} /\ c \in Digits -> "exp"
      [] OTHER -> "bad"

RECURSIVE FloatRun(_, _)
FloatRun(q, s) == IF s = <<>> THEN q ELSE FloatRun(FloatStep(q, s[1]), Tail(s))

\* s reads as a float literal
FloatText(s) == FloatRun("start", s) \in {"int", "frac", "exp"}

\* The pieces of s between its commas
Pieces(s) ==
    LET cut == {0, Len(s) + 1} \cup Positions(s, ",")
    IN  {SubSeq(s, a + 1, b - 1) :
            <<a, b>> \in {ab \in cut \X cut :
                             /\ ab[1] < ab[2]
                             /\ \A c \in cut : ~(ab[1] < c /\ c < ab[2])}}

\* C16 (amended): parse_str returns an int exactly for a non-empty string of
\* digits; for another string of digits, '.', '-' and 'E' (a signed integer
\* among them) a float when it reads as a float literal and the text itself
\* when not; for a string of these and commas a list with one float per piece
\* when every piece reads as a float literal, and raises ValueError when one
\* does not; True and False for TRUE and FALSE; the text itself otherwise.
C16_TypeByCharacters ==
    last.op = "parse_str" =>
        LET s == last.s
            returns(type) == res.status = "ok" /\ res.value.type = type
        IN  IF s # <<>> /\ Chars(s) \subseteq Digits
            THEN returns("int")
            ELSE IF Chars(s) \subseteq FloatChars
            THEN IF FloatText(s) THEN returns("float")
                 ELSE returns("str") /\ res.value.value = s
            ELSE IF Chars(s) \subseteq ListChars
            THEN IF \A piece \in Pieces(s) : FloatText(piece)
                 THEN /\ returns("list")
                      /\ Len(res.value.value) =
                            Cardinality(Positions(s, ",")) + 1
                 ELSE res.status = "error" /\ res.exc = "ValueError"
            ELSE IF s = <<"T", "R", "U", "E">>
            THEN returns("bool") /\ res.value.value = TRUE
            ELSE IF s = <<"F", "A", "L", "S", "E">>
            THEN returns("bool") /\ res.value.value = FALSE
            ELSE returns("str") /\ res.value.value = s

\* parse_str('-5') returned the float -5.0.
C16_Witness ==
    /\ last.op = "parse_str" /\ last.s = <<"-", "5">>
    /\ res.status = "ok" /\ res.value.type = "float"
    /\ res.value.value = <<-5, 0>>


\* The object with the waiting times of the info file
AsOpened(q) == [q EXCEPT !.t = q.info.waiting]

\* C17 (as claimed): when waiting time k, from 0, is the first without a PAR
\* scan file, then after the PAR load len(t) is k, the number of entries
\* loaded, and every waiting time left has a scan; after the PER load, too,
\* len(t) is the number of entries of par_data.
C17_TruncatedToLoaded ==
    qc # None =>
        /\ (qc.pc = "per" /\ Unloaded(AsOpened(qc), "PAR") # {}) =>
              /\ Len(qc.t) = FirstUnloaded(AsOpened(qc), "PAR")
              /\ Len(qc.t) = Cardinality(DOMAIN qc.par_data)
              /\ \A i \in 1..Len(qc.t) : qc.dir.PAR[i] > 0
        /\ qc.pc \in {"freqs", "ready", "failed"} =>
              Len(qc.t) = Cardinality(DOMAIN qc.par_data)

\* C18 (as claimed): the array make_ds hands to TwoDim has the shape (waiting
\* times, pump frequencies, probe channels) with
\* len(pump_freq) = (upsampling * len(t1)) // 2 + 1, and its entry [i, p, w]
\* is the transform for waiting time i, pump bin p and probe channel w.
C18_SpectrumLayout ==
    Ok("make_ds") =>
        LET a == res.value.spec2d
            K == Cardinality(DOMAIN qc.par_data)
            P == (Upsampling * Len(qc.t1)) \div 2 + 1
            W == Len(res.value.probe_wn)
        IN  /\ Len(res.value.pump_wn) = P
            /\ a.shape = <<K, P, W>>
            /\ \A i \in 1..K, p \in 1..P, w \in 1..W :
                  a.v[i][p][w] = [T |-> i - 1, pump |-> p, probe |-> w]


\* C20 (as claimed): every column cut_freqs returns, in nm or in cm, is a
\* column of the source with the wavelength and the wavenumber it has there.
C20_CutKeepsCoordinates ==
    Ok("cut_freqs") =>
        \A k \in 1..res.value.data.nc : \E j \in 1..ds.data.nc :
            /\ res.value.wavelengths[k] = ds.wavelengths[j]
            /\ res.value.wavenumbers[k] = ds.wavenumbers[j]
            /\ Col(res.value.data, k) = Col(ds.data, j)


\* Storage and instances agree: ds is what its references show, and what a
\* reduction returned is what the references of the returned instance show.
StorageConsistent ==
    store # None =>
        /\ ds = View(store.heap, store.ds)
        /\ (last.op \in Reductions /\ res.status = "ok") =>
              Result = (IF last.op = "estimate_dispersion"
                        THEN res.value.correct_ds ELSE res.value)

\* The instances there are: ds and, once a reduction returned, its result
Instances(st) == {o \in {"ds", "res"} : st[o] # None}

\* C14: a step of cut_freqs, cut_times, bin_freqs, bin_times or
\* concat_datasets that returns leaves the source as it was (axes, signal,
\* error, and the arrays they are bound to) and the returned instance is kept
\* in arrays of its own for wavelengths, wavenumbers and signal; and over any
\* step of any operation every instance that exists keeps its wavelengths,
\* wavenumbers and time axis and the shape of its signal and error, mask_freqs,
\* mask_times and subtract_background being the only steps that change
\* anything of an instance.
C14_ReductionsCopy ==
    [][/\ (last'.op \in Reductions \ {"estimate_dispersion"}
             /\ res'.status = "ok") =>
            /\ ds' = ds
            /\ store'.ds = store.ds
            /\ store.res = None /\ store'.res # None
            /\ View(store'.heap, store'.res) = res'.value
            /\ {store'.res.wavelengths, store'.res.wavenumbers,
                store'.res.data}
                 \cap {store.ds[f] : f \in ArrayFields} = {}
       /\ \A o \in Instances(store) :
            LET before == View(store.heap, store[o])
                after == View(store'.heap, store'[o])
            IN  /\ store'[o] = store[o]
                /\ SameAxes(after, before)
                /\ (before.err = None) = (after.err = None)
                /\ before.err # None => Shape(after.err) = Shape(before.err)
                /\ last'.op \notin InPlaceOps => after = before
                /\ (last'.op \in InPlaceOps /\ last'.target # o) =>
                      /\ after.data = before.data
                      /\ after.mask = before.mask
      ]_vars

\* C14 witness: an in-place call has just marked entries of an instance that
\* a reduction returned
C14_Witness ==
    /\ store # None /\ store.res # None
    /\ last.op \in {"mask_freqs", "mask_times"}
    /\ last.target = "res" /\ res.status = "ok"
    /\ Invalid(Result) # {}
    /\ Shape(Result.data) # Shape(ds.data)

\* The arrays an instance keeps its time axis, spectral axes, signal and
\* error in
Arrays(r) ==
    {r.t, r.wavelengths, r.wavenumbers, r.data}
        \cup (IF r.err = None THEN {} ELSE {r.err})

\* The arrays the caller gave the constructor
ArgArrays(a) == {a.wl, a.t} \cup (IF a.err = None THEN {} ELSE {a.err})

\* C15 (as claimed): the instance a reduction returned keeps its time axis,
\* wavelengths, wavenumbers, signal and error in arrays that are neither
\* arrays of the source nor arrays that were passed to the source's
\* constructor.
C15_NoSharedStorage ==
    (store # None /\ store.res # None) =>
        Arrays(store.res) \cap (Arrays(store.ds) \cup ArgArrays(store.arg))
            = {}

\* In how many of the ranges R does x lie strictly?
CountInside(x, R) ==
    Cardinality({i \in 1..Len(R) : R[i][1] < x /\ x < R[i][2]})

\* The positions of arr the operation acts on: those inside an odd number of
\* ranges when invert_sel is set, the others when it is not
Toggled(arr, R, invert_sel) ==
    [k \in 1..Len(arr) |-> (CountInside(arr[k], R) % 2 = 1) = invert_sel]

\* The same with the union of the ranges in the place of the toggling
Unioned(arr, R, invert_sel) ==
    [k \in 1..Len(arr) |-> (CountInside(arr[k], R) > 0) = invert_sel]

\* The positions with column index in idx
ColumnsOf(d, idx) ==
    {ij \in (1..d.data.nr) \X (1..d.data.nc) : idx[ij[2]]}

\* C19: cut_freqs and cut_times that return keep exactly the coordinates at
\* the toggled positions (with their signal), mask_freqs and mask_times that
\* return newly mark exactly the entries their code addresses with the toggled
\* positions (both mark columns), where a coordinate counts for a range only
\* strictly between its edges; and the toggled positions are those of the
\* union of the ranges exactly when no coordinate lies in an even number,
\* above zero, of ranges.
C19_ToggledRanges ==
    [][/\ (last'.op = "cut_freqs" /\ res'.status = "ok") =>
            LET arr == FreqAxis(ds, last'.freq_unit)
                idx == Toggled(arr, last'.ranges, last'.invert_sel)
            IN  /\ res'.value.wl = Take(arr, Where(idx))
                /\ res'.value.data.nc = Len(Where(idx))
                /\ {Col(res'.value.data, k) : k \in 1..res'.value.data.nc}
                     = {Col(ds.data, Where(idx)[k]) : k \in 1..Len(Where(idx))}
       /\ (last'.op = "cut_times" /\ res'.status = "ok") =>
            LET idx == Toggled(ds.t, last'.ranges, last'.invert_sel)
            IN  /\ res'.value.t = Take(ds.t, Where(idx))
                /\ res'.value.data = TakeRows(ds.data, Where(idx))
       /\ (last'.op \in {"mask_freqs", "mask_times"}
             /\ res'.status = "ok") =>
            LET before == View(store.heap, store[last'.target])
                after == View(store'.heap, store'[last'.target])
                arr == IF last'.op = "mask_times" THEN before.t
                       ELSE FreqAxis(before, last'.freq_unit)
                idx == Toggled(arr, last'.ranges, last'.invert_sel)
            IN  Invalid(after) = Invalid(before) \cup ColumnsOf(before, idx)
       /\ (last'.op \in {"cut_freqs", "cut_times", "mask_freqs", "mask_times"}
             /\ res'.status = "ok") =>
            LET d == IF last'.op \in {"mask_freqs", "mask_times"}
                     THEN View(store.heap, store[last'.target]) ELSE ds
                arr == IF last'.op \in {"cut_times", "mask_times"} THEN d.t
                       ELSE FreqAxis(d, last'.freq_unit)
                R == last'.ranges
            IN  (Toggled(arr, R, last'.invert_sel)
                    = Unioned(arr, R, last'.invert_sel))
                <=> ~\E k \in 1..Len(arr) :
                        /\ CountInside(arr[k], R) > 0
                        /\ CountInside(arr[k], R) % 2 = 0
      ]_vars

\* C19 witness: cut_times returned with one delay time inside two of the
\* ranges and another on an edge of a range
C19_Witness ==
    /\ Ok("cut_times") /\ store # None
    /\ \E k \in 1..Len(ds.t) : CountInside(ds.t[k], last.ranges) = 2
    /\ \E k \in 1..Len(ds.t), i \in 1..Len(last.ranges) :
          ds.t[k] = last.ranges[i][1]
    /\ Len(res.value.t) > 0

\* C19 witness for the in-place methods: mask_times returned with a delay
\* time inside two of the ranges
C19_WitnessMask ==
    /\ store # None /\ last.op = "mask_times" /\ res.status = "ok"
    /\ \E k \in 1..Len(ds.t) : CountInside(ds.t[k], last.ranges) = 2


\* C21 (as claimed): parse_str returns a value for every string, those made
\* only of digits, '.', '-', 'E' and ',' included; it never raises.
C21_ParseStrTotal ==
    last.op = "parse_str" => res.status = "ok"


\* C22 (as claimed): the instance a reduction returns has the
\* disp_freq_unit of the instance it was called on, and in every instance
\* plot.freq_unit is disp_freq_unit.
C22_DispUnitCarried ==
    /\ ds # None => ds.plot_freq_unit = ds.disp_freq_unit
    /\ (res # None /\ res.status = "ok"
          /\ last.op \in {"DataSet", "cut_freqs", "cut_times", "bin_freqs",
                          "bin_times", "concat_datasets"}) =>
          res.value.plot_freq_unit = res.value.disp_freq_unit
    /\ (res # None /\ res.status = "ok"
          /\ last.op \in {"cut_freqs", "cut_times", "bin_freqs", "bin_times",
                          "concat_datasets"}) =>
          res.value.disp_freq_unit = ds.disp_freq_unit

=============================================================================
